---- MODULE Spec2Model ----
(***************************************************************************)
(* The funds-transfer ledger of the banking API (core/serializers.py,      *)
(* core/views.py, core/models.py, core/admin.py): registration with the    *)
(* welcome credit, login, logout, the profile and password endpoints,      *)
(* set_pin, the transfer endpoint (DRF validation, then                    *)
(* TransferSerializer.save inside transaction.atomic), reference-number    *)
(* generation, the audit log and the admin site's screens, as a state      *)
(* machine over the committed database and the request handlers in flight. *)
(* A step of a handler is one SQL statement that reads or writes a table   *)
(* kept here (or one atomic block's COMMIT) with the Python around it.     *)
(*                                                                         *)
(* Money is counted in minor units (kobo): Decimal('50000.00') is 5000000. *)
(* The database is read-committed: a handler's writes inside atomic() are  *)
(* pending (invisible to the others) until its commit, a row written by a  *)
(* pending transaction is locked against the others, and a unique index    *)
(* refuses a second row with the same key.                                 *)
(***************************************************************************)
EXTENDS Integers, Sequences, FiniteSets, Bags, TLC

\* ------------------------------------------------------------------ bounds
MaxUsers == 4
MaxTransfers == 2
MaxClock == 1
NumSuffixes == 2
NumHandlers == 2
MaxAdminOps == 1
MaxFaults == 1
MaxPinSets == 3
MaxCalls == 1

\* ------------------------------------------------------- program constants
DemoAmount == 5000000
AccountNumberLength == 10
PinLength == 4

\* ------------------------------------------------------------- value sets
Digits == {"0", "1", "2", "3", "4", "5", "6", "7", "8", "9"}

\* One username for every registration and one for every user the
\* administrator adds.
Usernames == 1 .. MaxUsers + MaxAdminOps

\* One id for the account of every registration and one for every account the
\* administrator adds.
AcctIds == 1 .. MaxUsers + MaxAdminOps

Procs == 1 .. NumHandlers

NoUser == [none |-> "user"]

NoAccount == [none |-> "account"]

\* The slot of a row that was deleted: its id (a uuid4) is not given again.
DeletedAccount == [none |-> "deleted"]

NoForm == [none |-> "form"]

NoPin == <<>>

NoRef == <<>>

NoResponse == [kind |-> "none"]

\* Phone numbers a client registers with (User.phone_number, at most 15
\* characters).  PhoneA and PhoneB are different strings with the same ten
\* significant digits.
PhoneA == <<"0", "8", "0", "1", "2", "3", "4", "5", "6", "7", "8">>

PhoneB == <<"+", "2", "3", "4", "8", "0", "1", "2", "3", "4", "5", "6", "7", "8">>

PhoneC == <<"0", "8", "0", "2", "2", "2", "2", "2", "2", "2", "2">>

PhoneD == <<"0", "8", "0", "3", "-", "3", "3", "3", "-", "3", "3", "3", "3">>

PhoneE == <<"0", "8", "0", "4", "4", "4", "4", "4", "4", "4", "4">>

\* Transaction PINs a client may type: the one users set, another numeric
\* one and a non-numeric one.
PinGood == <<"1", "2", "3", "4">>

PinOther == <<"4", "3", "2", "1">>

PinInputs == {PinGood, PinOther, <<"1", "2", "a", "b">>}

\* Transfer amounts a client may ask for: 0.00 and 35000.00.
Amounts == {0, 3500000}

\* ------------------------------------------------------ string conversions
\* str.lstrip('0')
RECURSIVE LStripZero(_)
LStripZero(s) ==
    IF s # <<>> /\ Head(s) = "0" THEN LStripZero(Tail(s)) ELSE s

\* str.replace(pat, ''): leftmost non-overlapping occurrences removed
RECURSIVE Remove(_, _)
Remove(s, pat) ==
    IF Len(s) < Len(pat) THEN s
    ELSE IF SubSeq(s, 1, Len(pat)) = pat
         THEN Remove(SubSeq(s, Len(pat) + 1, Len(s)), pat)
         ELSE <<Head(s)>> \o Remove(Tail(s), pat)

\* str.isdigit() on the ASCII inputs drawn here
IsDigit(s) == s # <<>> /\ \A i \in 1 .. Len(s) : s[i] \in Digits

\* The account numbers BankAccount.generate_account_number can return for a
\* phone number: the first ten significant digits, padded with random digits
\* when there are fewer.
generate_account_number(phone) ==
    LET phone_digits ==
            Remove(Remove(Remove(LStripZero(phone), <<"+", "2", "3", "4">>),
                          <<" ">>), <<"-">>)
    IN  IF phone # <<>>
        THEN IF Len(phone_digits) >= AccountNumberLength
             THEN {SubSeq(phone_digits, 1, AccountNumberLength)}
             ELSE {phone_digits \o pad :
                      pad \in [1 .. AccountNumberLength - Len(phone_digits) -> Digits]}
        ELSE [1 .. AccountNumberLength -> Digits]

\* Account numbers a client may name in a transfer: those of the phones
\* above (no account has the number of a phone not registered yet).
NumberInputs ==
    UNION {generate_account_number(ph) : ph \in {PhoneA, PhoneB, PhoneC, PhoneD, PhoneE}}


\* ------------------------------------------------------------------ state
VARIABLES
    user_model,   \* "source": the User class of core/models.py, which defines no
                  \* PIN methods; "provider": a User completed with them
    users,        \* users table: username -> row
    accounts,     \* bank_accounts table: id -> row
    txs,          \* transactions table, in commit order
    audit,        \* audit_logs table, a bag of entries
    now,          \* the clock, in seconds
    pc,           \* where each request handler is in its view
    loc,          \* each handler's request, its model instances and its pending writes
    form,         \* the change form the administrator has open
    accepted,     \* transfers whose source account was found so far
    admin_ops,    \* screens of the admin site used so far
    faults,       \* failures so far that left a stored row without its companion
    overlapped,   \* history: two requests have been in flight at the same time
    response      \* the HTTP response of the step just taken

vars == <<user_model, users, accounts, txs, audit, now, pc, loc, form, accepted,
          admin_ops, faults, overlapped, response>>

Db == [users |-> users, accounts |-> accounts, txs |-> txs]

Registered == {u \in Usernames : users[u] # NoUser}

Opened == {a \in AcctIds : accounts[a] \notin {NoAccount, DeletedAccount}}

\* ------------------------------------------------------- the ORM and atomic
\* One pending write of a database transaction.
WriteUser(u, row) == [op |-> "user", id |-> u, row |-> row]

WriteAccount(a, row) == [op |-> "account", id |-> a, row |-> row]

WriteTx(row) == [op |-> "tx", id |-> 0, row |-> row]

\* The tables with one write applied.  Model.save() of an instance whose row
\* is gone finds nothing to UPDATE and INSERTs the row under its id.
ApplyWrite(db, w) ==
    CASE w.op = "user" -> [db EXCEPT !.users[w.id] = w.row]
      [] w.op = "account" -> [db EXCEPT !.accounts[w.id] = w.row]
      [] w.op = "tx" -> [db EXCEPT !.txs = Append(@, w.row)]

RECURSIVE ApplyWrites(_, _)
ApplyWrites(db, ws) ==
    IF ws = <<>> THEN db ELSE ApplyWrites(ApplyWrite(db, Head(ws)), Tail(ws))

\* An atomic block that keeps the writes made before the exception, as the
\* statements would without transaction.atomic().
AtomicExitKeepsWrites(db, ws, exception, needs_rollback) == ApplyWrites(db, ws)

\* Leaving `with transaction.atomic():` commits the block's writes unless an
\* exception leaves the block or a failed query marked the transaction for
\* rollback (Model.save_base -> mark_for_rollback_on_error).
atomic_exit(db, ws, exception, needs_rollback) ==
    IF exception \/ needs_rollback THEN db ELSE ApplyWrites(db, ws)

\* A bank_accounts table without the index on (user, is_primary).
UniqueTogetherUnchecked(db, a, row) == TRUE

\* BankAccount.Meta.unique_together = ['user', 'is_primary']: the row may be
\* stored under id a when no other row has its user and its is_primary.
unique_together(db, a, row) ==
    \A b \in AcctIds \ {a} :
        db.accounts[b] \notin {NoAccount, DeletedAccount}
        => ~(db.accounts[b].user = row.user /\ db.accounts[b].is_primary = row.is_primary)

\* The foreign keys of the tables db hold: every account has its user
\* (BankAccount.user) and every transaction row its account
\* (Transaction.account).  They are checked when a transaction commits.
ForeignKeys(db) ==
    /\ \A a \in AcctIds :
          db.accounts[a] \notin {NoAccount, DeletedAccount}
          => db.users[db.accounts[a].user] # NoUser
    /\ \A i \in 1 .. Len(db.txs) :
          db.accounts[db.txs[i].account] \notin {NoAccount, DeletedAccount}

\* AuditLog.objects.create(user=..., action_type=...): the entry.  xfer names
\* the transfer a TRANSFER entry describes (its description holds the amount
\* and the two account numbers).
AuditLog(user, action_type, xfer) ==
    [user |-> user, action_type |-> action_type, xfer |-> xfer]

\* The audit_logs table after user u was deleted: AuditLog.user is
\* on_delete=SET_NULL, the entries of u are kept without their user (0).
WithoutUser(entries, u) ==
    LET Nulled(e) == [e EXCEPT !.user = IF @ = u THEN 0 ELSE @]
    IN  BagOfAll(Nulled, entries)

\* The number of entries with one of the action types.
CountLogged(types) ==
    LET kept == {e \in BagToSet(audit) : e.action_type \in types}
    IN  BagCardinality([e \in kept |-> audit[e]])

\* ------------------------------------------------------------ PIN checking
\* request.user: the row of the users table DRF's authentication reads
\* before the view is called (the views are IsAuthenticated).  The instance
\* is not read again while the request is served.
request_user(u) == users[u]

\* The identity provider's verifySecret(identity, secret): the secret is the
\* one the User instance holds.
verifySecret(user, value) ==
    IF user.pin # NoPin /\ user.pin = value THEN "match" ELSE "mismatch"

\* user.check_transaction_pin(value) on the instance request.user:
\* core/models.py defines no such method on User, so the call raises
\* AttributeError.
check_transaction_pin(user, value) ==
    IF user_model = "source" THEN "AttributeError" ELSE verifySecret(user, value)

\* CharField(min_length=4, max_length=4), then PINVerificationMixin.validate_pin
\* with user = self.context['request'].user.  The result is "ok", an error
\* message, or "AttributeError".
validate_pin(user, value) ==
    IF Len(value) < PinLength THEN "Ensure this field has at least 4 characters."
    ELSE IF Len(value) > PinLength THEN "Ensure this field has no more than 4 characters."
    ELSE IF ~IsDigit(value) THEN "PIN must be numeric."
    ELSE LET checked == check_transaction_pin(user, value)
         IN  IF checked = "AttributeError" THEN "AttributeError"
             ELSE IF checked = "mismatch" THEN "Invalid transaction PIN."
             ELSE "ok"

\* TransferSerializer.validate_amount
validate_amount(value) ==
    IF value <= 0 THEN "Transfer amount must be positive." ELSE "ok"

\* ------------------------------------------------------ transfer validation
\* BankAccount.objects.get(account_number=..., user=...): the ids of the rows
\* that match (account_number is unique: one at most).
SourceLookup(db, number, user) ==
    {a \in AcctIds : /\ db.accounts[a] \notin {NoAccount, DeletedAccount}
                     /\ db.accounts[a].account_number = number
                     /\ db.accounts[a].user = user}

\* BankAccount.objects.get(account_number=...)
DestinationLookup(db, number) ==
    {a \in AcctIds : /\ db.accounts[a] \notin {NoAccount, DeletedAccount}
                     /\ db.accounts[a].account_number = number}

\* The id get() returns, 0 when it raises DoesNotExist.
Got(found) == IF found = {} THEN 0 ELSE CHOOSE a \in found : TRUE

\* The instance get() returns, NoAccount when it raises DoesNotExist.
Instance(db, found) == IF found = {} THEN NoAccount ELSE db.accounts[Got(found)]

\* The object-level checks without the one of the funds.
ValidateWithoutFunds(req, from_account, to_account) ==
    IF req.from_account = req.to_account
    THEN "Cannot transfer to the same account."
    ELSE IF from_account = NoAccount
    THEN "Source account not found or does not belong to you."
    ELSE IF to_account = NoAccount
    THEN "Destination account not found."
    ELSE IF from_account.status # "ACTIVE"
    THEN "Source account is not active."
    ELSE IF to_account.status # "ACTIVE"
    THEN "Destination account is not active."
    ELSE "ok"

\* A check of the funds that only refuses an empty source.
ValidateNonEmptyOnly(req, from_account, to_account) ==
    LET checked == ValidateWithoutFunds(req, from_account, to_account)
    IN  IF checked # "ok" THEN checked
        ELSE IF from_account.available_balance <= 0 THEN "Insufficient funds."
        ELSE "ok"

\* TransferSerializer.validate on the instances its two queries returned
\* (NoAccount for DoesNotExist): the object-level checks, first failure wins.
\* The result is "ok" or the error message.
validate(req, from_account, to_account) ==
    IF req.from_account = req.to_account
    THEN "Cannot transfer to the same account."
    ELSE IF from_account = NoAccount
    THEN "Source account not found or does not belong to you."
    ELSE IF to_account = NoAccount
    THEN "Destination account not found."
    ELSE IF from_account.status # "ACTIVE"
    THEN "Source account is not active."
    ELSE IF to_account.status # "ACTIVE"
    THEN "Destination account is not active."
    ELSE IF from_account.available_balance < req.amount
    THEN "Insufficient funds."
    ELSE "ok"

\* Serializer.to_internal_value: every field is validated and the failures of
\* all fields are collected; an exception that is no ValidationError leaves
\* at once.  The fields are pin (the mixin's), from_account, to_account,
\* amount, description.  user is request.user.
field_errors(user, req) ==
    {e \in {[field |-> "pin", message |-> validate_pin(user, req.pin)],
            [field |-> "amount", message |-> validate_amount(req.amount)]} :
        e.message # "ok"}

\* What serializer.is_valid() has decided before validate() sends its first
\* query: "crash" (an uncaught exception, HTTP 500), "invalid" (HTTP 400 with
\* the errors) or "query" (the source is looked up next).  user is
\* request.user.
before_source(user, req) ==
    IF validate_pin(user, req.pin) = "AttributeError"
    THEN [errors |-> {[field |-> "pin", message |-> "AttributeError"]},
          kind |-> "crash"]
    ELSE IF field_errors(user, req) # {}
    THEN [kind |-> "invalid", errors |-> field_errors(user, req)]
    ELSE IF req.from_account = req.to_account
    THEN [kind |-> "invalid",
          errors |-> {[field |-> "non_field_errors",
                       message |-> validate(req, NoAccount, NoAccount)]}]
    ELSE [errors |-> {}, kind |-> "query"]

\* serializer.is_valid() of a request served alone on the tables db:
\* request.user and both queries are answered from them.  "crash", "invalid"
\* or "valid".
is_valid(db, req) ==
    LET from_account == Instance(db, SourceLookup(db, req.from_account, req.user))
        to_account == Instance(db, DestinationLookup(db, req.to_account))
        early == before_source(db.users[req.user], req)
        object == validate(req, from_account, to_account)
    IN  IF early.kind # "query" THEN early
        ELSE IF object # "ok"
        THEN [kind |-> "invalid",
              errors |-> {[field |-> "non_field_errors", message |-> object]}]
        ELSE [errors |-> {}, kind |-> "valid"]

\* ------------------------------------------------------------ the requests
Requests ==
    [user : Usernames, from_account : NumberInputs, to_account : NumberInputs,
     amount : Amounts, pin : PinInputs]

NoRequest == [none |-> "request"]

\* A handler between two requests.  req is the request served; user is the
\* User instance request.user; checked is what the statement before left for
\* the next one (the username validator's verdict, whether create() stored
\* the user); reference is the reference number generated for the row to
\* insert, writes are the writes of the open database transaction; the
\* others belong to a transfer.
IdleLoc ==
    [checked |-> FALSE, dst |-> 0, from_account |-> NoAccount, reference |-> NoRef,
     req |-> NoRequest, src |-> 0, to_account |-> NoAccount, user |-> NoUser,
     writes |-> <<>>, xfer |-> 0]

InFlight == {p \in Procs : pc[p] # "idle"}

\* Steps of TransferSerializer.save that are still inside the atomic block.
InAtomic ==
    {"validated", "from_saved", "to_saved", "debit_draw", "debit_ref", "debit_row",
     "credit_draw", "credit_ref", "credit_row"}

\* Steps of TransactionAdmin's add view.
InAdminAdd == {"admin_draw", "admin_ref", "admin_row"}

\* Steps of AuthViewSet.register.
InRegister == {"reg_username", "reg_email", "reg_validated", "reg_created"}

\* Account rows another handler's open transaction has written (and locked).
LockedBy(q) ==
    {loc[q].writes[i].id : i \in {j \in 1 .. Len(loc[q].writes) :
                                     loc[q].writes[j].op = "account"}}

RefsIn(rows) == {rows[i].reference_number : i \in 1 .. Len(rows)}

PendingRows(q) ==
    SelectSeq(loc[q].writes, LAMBDA w : w.op = "tx")

PendingRefs(q) == {PendingRows(q)[i].row.reference_number : i \in 1 .. Len(PendingRows(q))}

\* The server hands a request to its first idle handler.
FreeHandler ==
    IF Procs \ InFlight = {} THEN 0
    ELSE CHOOSE p \in Procs \ InFlight : \A q \in Procs \ InFlight : p <= q

\* ---------------------------------------------------- reference numbers
Suffixes == 0 .. NumSuffixes - 1

\* f"TXN{timestamp}{random_digits}"
TxnReference(timestamp, random_digits) == <<"TXN", timestamp, random_digits>>

\* f'DEMO{bank_account.account_number}'
DemoReference(account_number) == <<"DEMO", account_number>>

\* Transaction.objects.filter(reference_number=reference).exists(), as the
\* handler's transaction sees the table: the committed rows and its own.
ReferenceExists(p, reference) ==
    reference \in RefsIn(txs) \cup PendingRefs(p)

\* ''.join(random.choices(string.digits, k=4)): any suffix.  The suffixes of
\* the timestamp that no row and no handler holds (held: generated or
\* inserted by another handler and not committed) are interchangeable, and
\* the draw is represented by the least of them.
random_choices(p, timestamp) ==
    LET held == UNION {PendingRefs(q) \cup {loc[q].reference} : q \in Procs \ {p}}
        unused == {d \in Suffixes :
                      /\ ~ReferenceExists(p, TxnReference(timestamp, d))
                      /\ TxnReference(timestamp, d) \notin held}
    IN  {d \in Suffixes : d \notin unused}
        \cup {d \in unused : \A e \in unused : d <= e}

\* Transaction.generate_reference_number up to its loop: the clock is read
\* once and the first suffix is drawn.
generate_reference_number(p) ==
    {TxnReference(now, d) : d \in random_choices(p, now)}

\* The statements of Transaction.save() before its INSERT, and the one that
\* follows each: the loop's queries, then the INSERT.
AfterDraw ==
    [admin_draw |-> "admin_ref", credit_draw |-> "credit_ref", debit_draw |-> "debit_ref"]

\* ----------------------------------------------------------------- responses
\* Response(body, status=...): the endpoint answering, the kind of body and
\* the HTTP status.
Respond(endpoint, kind, status) ==
    [endpoint |-> endpoint, kind |-> kind, status |-> status]

Quiet == response = NoResponse

\* The response has gone out.
Deliver ==
    /\ response # NoResponse
    /\ response' = NoResponse
    /\ UNCHANGED <<user_model, users, accounts, txs, audit, now, pc, loc, form,
                   accepted, admin_ops, faults, overlapped>>

\* A second passes.
Tick ==
    /\ Quiet
    /\ now < MaxClock
    /\ now' = now + 1
    /\ UNCHANGED <<user_model, users, accounts, txs, audit, pc, loc, form, accepted,
                   admin_ops, faults, overlapped, response>>

\* A handler takes a request that needs several statements.
Begin(p, to, fields) ==
    /\ Quiet
    /\ p = FreeHandler
    /\ pc' = [pc EXCEPT ![p] = to]
    /\ loc' = [loc EXCEPT ![p] = fields]
    /\ overlapped' = (overlapped \/ InFlight # {})

\* A handler goes on to its next statement.
Goto(p, from, to, fields) ==
    /\ Quiet
    /\ pc[p] = from
    /\ pc' = [pc EXCEPT ![p] = to]
    /\ loc' = [loc EXCEPT ![p] = fields]

\* A handler leaves its view.
Leave(p, from) ==
    /\ Quiet
    /\ pc[p] \in from
    /\ pc' = [pc EXCEPT ![p] = "idle"]
    /\ loc' = [loc EXCEPT ![p] = IdleLoc]

\* A handler returns its response.
Return(p, from, answer) == Leave(p, from) /\ response' = answer

\* A request answered by the statement that receives it.
Answer(answer) ==
    /\ Quiet
    /\ FreeHandler # 0
    /\ response' = answer
    /\ UNCHANGED <<pc, loc, overlapped>>

\* An entry is to be inserted into audit_logs: it is and the view returns its
\* answer, or the INSERT raises and the exception is answered.  The INSERT
\* of an entry whose user is not stored any more is refused by the foreign
\* key.
Audited(entry, audit_raises, failure, answer) ==
    IF users[entry.user] = NoUser
    THEN /\ audit' = audit
         /\ faults' = faults
         /\ response' = failure
    ELSE /\ audit_raises => faults < MaxFaults
         /\ audit' = IF audit_raises THEN audit ELSE audit (+) SetToBag({entry})
         /\ faults' = IF audit_raises THEN faults + 1 ELSE faults
         /\ response' = IF audit_raises THEN failure ELSE answer

\* An exception no handler catches leaves the view: HTTP 500.
Uncaught(endpoint) == Respond(endpoint, "crash", 500)

\* -------------------------------------------------------------- registration
NewAccount(user, number) ==
    [user |-> user, account_number |-> number, balance |-> DemoAmount,
     available_balance |-> DemoAmount, status |-> "ACTIVE", is_primary |-> TRUE]

WelcomeTransaction(a, number) ==
    [account |-> a, transaction_type |-> "CREDIT", amount |-> DemoAmount,
     balance_before |-> 0, balance_after |-> DemoAmount, status |-> "COMPLETED",
     reference_number |-> DemoReference(number), xfer |-> 0]

\* The primary key of a new row (uuid4): one no row has had.
FreeAcctId ==
    LET unused == {a \in AcctIds : accounts[a] = NoAccount}
    IN  IF unused = {} THEN 0 ELSE CHOOSE a \in unused : \A b \in unused : a <= b

UsedNumbers == {accounts[a].account_number : a \in Opened}

UsedPhones == {users[u].phone : u \in Registered}

\* Where the try block around the welcome transaction raises: nowhere ("no"),
\* in TransactionCategory.objects.get_or_create ("category") or in the INSERT
\* of Transaction.objects.create ("insert").
WelcomeOutcomes == {"no", "category", "insert"}

\* The writes of UserRegistrationSerializer.create inside its atomic block:
\* the user, the primary account with the demo funds, and the welcome
\* transaction unless the try block raised (the except clause swallows that).
RegistrationWrites(k, phone, a, number, welcome_raises) ==
    <<WriteUser(k, [phone |-> phone, pin |-> NoPin]),
      WriteAccount(a, NewAccount(k, number))>>
    \o (IF welcome_raises = "no" THEN <<WriteTx(WelcomeTransaction(a, number))>>
        ELSE <<>>)

\* UserRegistrationSerializer.create.  An exception of the try block is
\* caught and the block is left by `return user`.  A failed INSERT of the
\* welcome transaction has marked the transaction for rollback (Model.save_base);
\* a failure of get_or_create has not (its own atomic block rolls back to its
\* savepoint and clears the mark), and the user and the account are committed.
create(db, k, phone, a, number, welcome_raises) ==
    atomic_exit(db, RegistrationWrites(k, phone, a, number, welcome_raises),
                FALSE, welcome_raises = "insert")

\* The unique indexes of users (username, email, phone_number) let the INSERT
\* of create_user through.  A client's e-mail address is that of its username.
IsNewUser(k, phone) == users[k] = NoUser /\ phone \notin UsedPhones

\* AuthViewSet.register, serializer.is_valid(): the UniqueValidator of
\* username sends its SELECT.  The failures of all fields are collected, so
\* the validators that follow run whatever this one finds.
RegisterReceived(p, r) ==
    /\ LET registering ==
               {loc[q].req.username : q \in {x \in Procs : pc[x] \in InRegister}}
       IN  r.username <= Cardinality(Registered \cup registering) + 1
    /\ Begin(p, "reg_username",
             [IdleLoc EXCEPT !.req = r, !.checked = (users[r.username] = NoUser)])
    /\ UNCHANGED <<user_model, users, accounts, txs, audit, now, form, accepted,
                   admin_ops, faults, response>>

\* The UniqueValidator of email sends its SELECT.
RegisterEmailChecked(p) ==
    /\ pc[p] = "reg_username"
    /\ Goto(p, "reg_username", "reg_email",
            [loc[p] EXCEPT !.checked = (@ /\ users[loc[p].req.username] = NoUser)])
    /\ UNCHANGED <<user_model, users, accounts, txs, audit, now, form, accepted,
                   admin_ops, faults, overlapped, response>>

\* The UniqueValidator of phone_number sends its SELECT, and every field has
\* passed: serializer.is_valid() returns True.
RegisterValidated(p) ==
    /\ pc[p] = "reg_email"
    /\ loc[p].checked
    /\ loc[p].req.phone \notin UsedPhones
    /\ Goto(p, "reg_email", "reg_validated", loc[p])
    /\ UNCHANGED <<user_model, users, accounts, txs, audit, now, form, accepted,
                   admin_ops, faults, overlapped, response>>

\* The UniqueValidator of phone_number sends its SELECT, and a field has
\* failed: the errors are returned (HTTP 400).
RegisterRejected(p) ==
    /\ pc[p] = "reg_email"
    /\ ~(loc[p].checked /\ loc[p].req.phone \notin UsedPhones)
    /\ Return(p, {"reg_email"}, Respond("register", "invalid", 400))
    /\ UNCHANGED <<user_model, users, accounts, txs, audit, now, form, accepted,
                   admin_ops, faults, overlapped>>

\* serializer.save() of a registration that passed the validators, and a
\* row stored since has its username, its phone number or its account
\* number: the INSERT of create_user or of BankAccount.objects.create raises
\* IntegrityError, which leaves the atomic block and the view (HTTP 500).
RegisterCollides(p) ==
    /\ pc[p] = "reg_validated"
    /\ LET r == loc[p].req
       IN  \/ ~IsNewUser(r.username, r.phone)
           \/ generate_account_number(r.phone) \subseteq UsedNumbers
    /\ Return(p, {"reg_validated"}, Uncaught("register"))
    /\ UNCHANGED <<user_model, users, accounts, txs, audit, now, form, accepted,
                   admin_ops, faults, overlapped>>

\* serializer.save(): UserRegistrationSerializer.create, from its first INSERT
\* to the end of its atomic block.  The rows are visible to the other
\* connections from the COMMIT on; checked records whether they were stored.
RegisterCreate(p, welcome_raises) ==
    /\ pc[p] = "reg_validated"
    /\ FreeAcctId # 0
    /\ welcome_raises = "category" => faults < MaxFaults
    /\ LET r == loc[p].req
       IN  /\ IsNewUser(r.username, r.phone)
           /\ \E number \in generate_account_number(r.phone) \ UsedNumbers :
                 /\ unique_together(Db, FreeAcctId, NewAccount(r.username, number))
                 /\ LET db == create(Db, r.username, r.phone, FreeAcctId, number,
                                     welcome_raises)
                    IN  /\ users' = db.users
                        /\ accounts' = db.accounts
                        /\ txs' = db.txs
                        /\ Goto(p, "reg_validated", "reg_created",
                                [loc[p] EXCEPT
                                    !.checked = (db.users[r.username] # NoUser)])
    /\ faults' = IF welcome_raises = "category" THEN faults + 1 ELSE faults
    /\ UNCHANGED <<user_model, audit, now, form, accepted, admin_ops, overlapped,
                   response>>

\* AuditLog.objects.create(action_type='REGISTER') and the response (HTTP
\* 201).  After a rolled-back create() the entry refers to a user that was
\* never stored: its INSERT fails on the foreign key, as it may for any other
\* reason, and the exception leaves the view (HTTP 500).
RegisterAudit(p, audit_raises) ==
    /\ pc[p] = "reg_created"
    /\ ~loc[p].checked => audit_raises
    /\ Leave(p, {"reg_created"})
    /\ IF loc[p].checked
       THEN Audited(AuditLog(loc[p].req.username, "REGISTER", 0), audit_raises,
                    Uncaught("register"), Respond("register", "ok", 201))
       ELSE /\ audit' = audit
            /\ faults' = faults
            /\ response' = Uncaught("register")
    /\ UNCHANGED <<user_model, users, accounts, txs, now, form, accepted, admin_ops,
                   overlapped>>

\* ---------------------------------------------------------- login and logout
\* The calls of login, logout, update_profile and change_password served so
\* far (each leaves one entry unless its INSERT fails) or being served.
Calls ==
    CountLogged({"LOGIN", "LOGOUT", "ACCOUNT_UPDATE", "PROFILE_UPDATE",
                 "PASSWORD_CHANGE"})
    + Cardinality({p \in Procs :
                      pc[p] \in {"login_valid", "logout_auth", "profile_auth",
                                 "profile_valid", "profile_saved", "password_valid",
                                 "password_saved"}})

\* A view called for user u: the user's row is read (by DRF's authentication
\* for request.user, by authenticate() in login) and the Python before the
\* view's next statement has run.
Authenticated(p, u, to, req) ==
    /\ users[u] # NoUser
    /\ Begin(p, to, [IdleLoc EXCEPT !.req = req, !.user = request_user(u)])
    /\ UNCHANGED <<user_model, users, accounts, txs, audit, now, form, accepted,
                   admin_ops, faults, response>>

\* AuthViewSet.login, LoginSerializer: authenticate() finds no user with the
\* credentials (HTTP 400).
LoginRejected(u) ==
    /\ users[u] = NoUser
    /\ Answer(Respond("login", "invalid", 400))
    /\ UNCHANGED <<user_model, users, accounts, txs, audit, now, form, accepted,
                   admin_ops, faults>>

\* AuthViewSet.login, LoginSerializer: authenticate() returns the user
\* (login() then stores last_login, a column not kept here).
LoginValidated(p, u) ==
    /\ Calls < MaxCalls
    /\ Authenticated(p, u, "login_valid", [user |-> u])

\* AuditLog.objects.create(action_type='LOGIN') and the tokens (HTTP 200).
LoginAudit(p, audit_raises) ==
    /\ pc[p] = "login_valid"
    /\ Leave(p, {"login_valid"})
    /\ Audited(AuditLog(loc[p].req.user, "LOGIN", 0), audit_raises, Uncaught("login"),
               Respond("login", "ok", 200))
    /\ UNCHANGED <<user_model, users, accounts, txs, now, form, accepted, admin_ops,
                   overlapped>>

\* AuthViewSet.logout: the request is authenticated.
LogoutAuthenticated(p, u) ==
    /\ Calls < MaxCalls
    /\ Authenticated(p, u, "logout_auth", [user |-> u])

\* AuthViewSet.logout: the LOGOUT entry is written, then the try block, which
\* ends in status.HTTP_25_NO_CONTENT, a name the status module does not have:
\* the AttributeError is caught by `except Exception` and answered with HTTP
\* 400.
Logout(p, audit_raises) ==
    /\ pc[p] = "logout_auth"
    /\ Leave(p, {"logout_auth"})
    /\ Audited(AuditLog(loc[p].req.user, "LOGOUT", 0), audit_raises,
               Uncaught("logout"), Respond("logout", "failed", 400))
    /\ UNCHANGED <<user_model, users, accounts, txs, now, form, accepted, admin_ops,
                   overlapped>>

\* --------------------------------------------------- profile and password
\* The phone numbers of the users other than u.
PhonesOfOthers(u) == {users[v].phone : v \in Registered \ {u}}

\* The two views that update the profile and the action_type each logs.
ProfileViews == [UserProfileViewSet |-> "PROFILE_UPDATE", UserViewSet |-> "ACCOUNT_UPDATE"]

\* update_profile of UserViewSet or of UserProfileViewSet: the request is
\* authenticated and UserProfileSerializer(request.user, data, partial=True)
\* is built on that instance.
UpdateProfileAuthenticated(p, u, view, phone) ==
    /\ Calls < MaxCalls
    /\ Authenticated(p, u, "profile_auth", [user |-> u, view |-> view, phone |-> phone])

\* serializer.is_valid(): the UniqueValidator of phone_number sends its SELECT
\* and finds another user with the number (HTTP 400).
UpdateProfileRejected(p) ==
    /\ pc[p] = "profile_auth"
    /\ loc[p].req.phone \in PhonesOfOthers(loc[p].req.user)
    /\ Return(p, {"profile_auth"}, Respond("update_profile", "invalid", 400))
    /\ UNCHANGED <<user_model, users, accounts, txs, audit, now, form, accepted,
                   admin_ops, faults, overlapped>>

\* serializer.is_valid(): the validator's SELECT finds the number free.
UpdateProfileValidated(p) ==
    /\ pc[p] = "profile_auth"
    /\ loc[p].req.phone \notin PhonesOfOthers(loc[p].req.user)
    /\ Goto(p, "profile_auth", "profile_valid", loc[p])
    /\ UNCHANGED <<user_model, users, accounts, txs, audit, now, form, accepted,
                   admin_ops, faults, overlapped, response>>

\* instance.save() of a User instance: the UPDATE of every column of the
\* user's row, as the instance has them (an INSERT of the row when it is
\* gone).  The unique index on phone_number may refuse it (IntegrityError,
\* HTTP 500).
SaveUser(p, endpoint, from, to, user) ==
    LET u == loc[p].req.user
    IN  IF user.phone \in PhonesOfOthers(u)
        THEN /\ Return(p, {from}, Uncaught(endpoint))
             /\ UNCHANGED <<user_model, users, accounts, txs, audit, now, form,
                            accepted, admin_ops, faults, overlapped>>
        ELSE /\ Goto(p, from, to, [loc[p] EXCEPT !.user = user])
             /\ users' = [users EXCEPT ![u] = user]
             /\ UNCHANGED <<user_model, accounts, txs, audit, now, form, accepted,
                            admin_ops, faults, overlapped, response>>

\* serializer.save(): the validated phone_number is set on request.user and
\* the instance is saved.
UpdateProfileSave(p) ==
    /\ pc[p] = "profile_valid"
    /\ SaveUser(p, "update_profile", "profile_valid", "profile_saved",
                [loc[p].user EXCEPT !.phone = loc[p].req.phone])

\* AuditLog.objects.create(action_type='ACCOUNT_UPDATE') in UserViewSet,
\* (action_type='PROFILE_UPDATE') in UserProfileViewSet, and the response.
UpdateProfileAudit(p, audit_raises) ==
    /\ pc[p] = "profile_saved"
    /\ Leave(p, {"profile_saved"})
    /\ Audited(AuditLog(loc[p].req.user, ProfileViews[loc[p].req.view], 0),
               audit_raises, Uncaught("update_profile"),
               Respond("update_profile", "ok", 200))
    /\ UNCHANGED <<user_model, users, accounts, txs, now, form, accepted, admin_ops,
                   overlapped>>

\* UserViewSet.change_password: the request is authenticated and
\* ChangePasswordSerializer accepts the current password of request.user.
ChangePasswordValidated(p, u) ==
    /\ Calls < MaxCalls
    /\ Authenticated(p, u, "password_valid", [user |-> u])

\* request.user.set_password(...); request.user.save()
ChangePasswordSave(p) ==
    /\ pc[p] = "password_valid"
    /\ SaveUser(p, "change_password", "password_valid", "password_saved", loc[p].user)

\* AuditLog.objects.create(action_type='PASSWORD_CHANGE') and the response.
ChangePasswordAudit(p, audit_raises) ==
    /\ pc[p] = "password_saved"
    /\ Leave(p, {"password_saved"})
    /\ Audited(AuditLog(loc[p].req.user, "PASSWORD_CHANGE", 0), audit_raises,
               Uncaught("change_password"), Respond("change_password", "ok", 200))
    /\ UNCHANGED <<user_model, users, accounts, txs, now, form, accepted, admin_ops,
                   overlapped>>

\* UserProfileViewSet.change_password: serializer.save() of a Serializer that
\* defines neither create() nor update() raises NotImplementedError once the
\* request is authenticated and valid (HTTP 500).
ChangePasswordCrash(u) ==
    /\ users[u] # NoUser
    /\ Answer(Uncaught("change_password"))
    /\ UNCHANGED <<user_model, users, accounts, txs, audit, now, form, accepted,
                   admin_ops, faults>>

\* ------------------------------------------------------------------ set_pin
\* SetTransactionPINSerializer: the field's length bounds, then validate().
set_pin_errors(pin, pin_confirm) ==
    IF Len(pin) < PinLength THEN {"Ensure this field has at least 4 characters."}
    ELSE IF Len(pin) > PinLength
    THEN {"Ensure this field has no more than 4 characters."}
    ELSE IF pin # pin_confirm THEN {"PINs do not match."}
    ELSE IF ~IsDigit(pin) THEN {"PIN must be numeric."}
    ELSE {}

\* user.set_transaction_pin(pin) as the identity provider stores a secret:
\* the hash is set on the instance.
set_transaction_pin(user, pin) == [user EXCEPT !.pin = pin]

\* AuthViewSet.set_pin: the request is authenticated and the serializer
\* refuses it (HTTP 400).
SetPinRejected(u, pin, pin_confirm) ==
    /\ u \in Registered
    /\ set_pin_errors(pin, pin_confirm) # {}
    /\ Answer(Respond("set_pin", "invalid", 400))
    /\ UNCHANGED <<user_model, users, accounts, txs, audit, now, form, accepted,
                   admin_ops, faults>>

\* AuthViewSet.set_pin on the User of core/models.py: set_transaction_pin is
\* not defined, serializer.save() raises AttributeError.
SetPinCrash(u, pin) ==
    /\ u \in Registered
    /\ user_model = "source"
    /\ set_pin_errors(pin, pin) = {}
    /\ Answer(Uncaught("set_pin"))
    /\ UNCHANGED <<user_model, users, accounts, txs, audit, now, form, accepted,
                   admin_ops, faults>>

\* User.transaction_pin_hash holds the hash of the user's PIN.  No endpoint of
\* core/ writes the column (set_transaction_pin is not defined): the hash is
\* stored in the table directly.
StorePinHash(u, pin) ==
    /\ Quiet
    /\ u \in Registered
    /\ user_model = "source"
    /\ users[u].pin = NoPin
    /\ users' = [users EXCEPT ![u].pin = pin]
    /\ UNCHANGED <<user_model, accounts, txs, audit, now, pc, loc, form, accepted,
                   admin_ops, faults, overlapped, response>>

\* AuthViewSet.set_pin with the PIN methods provided, whether the user has a
\* PIN or not: the request is authenticated, the serializer is valid and
\* serializer.save() calls user.set_transaction_pin(pin) on request.user.
\* The set_pin calls served so far or being served are counted.
SetPinValidated(p, u, pin) ==
    /\ user_model = "provider"
    /\ set_pin_errors(pin, pin) = {}
    /\ CountLogged({"PIN_SET"})
          + Cardinality({q \in Procs : pc[q] \in {"pin_valid", "pin_saved"}}) < MaxPinSets
    /\ Authenticated(p, u, "pin_valid", [user |-> u, pin |-> pin])

\* user.save() of serializer.save(): request.user, with the PIN set, is
\* saved.  When the UPDATE raises the exception leaves the view (HTTP 500)
\* and the row is as it was.
SetPinSave(p, save_raises) ==
    /\ pc[p] = "pin_valid"
    /\ IF save_raises
       THEN /\ Return(p, {"pin_valid"}, Uncaught("set_pin"))
            /\ UNCHANGED <<user_model, users, accounts, txs, audit, now, form,
                           accepted, admin_ops, faults, overlapped>>
       ELSE SaveUser(p, "set_pin", "pin_valid", "pin_saved",
                     set_transaction_pin(loc[p].user, loc[p].req.pin))

\* AuditLog.objects.create(action_type='PIN_SET') and the response.
SetPinAudit(p, audit_raises) ==
    /\ pc[p] = "pin_saved"
    /\ Leave(p, {"pin_saved"})
    /\ Audited(AuditLog(loc[p].req.user, "PIN_SET", 0), audit_raises, Uncaught("set_pin"),
               Respond("set_pin", "ok", 200))
    /\ UNCHANGED <<user_model, users, accounts, txs, now, form, accepted, admin_ops,
                   overlapped>>

\* ------------------------------------------------------------------- admin
\* A change view of the admin site, GET: the form shows the row as stored.
AdminOpen(kind, id, row) ==
    /\ Quiet
    /\ admin_ops < MaxAdminOps
    /\ form' = [kind |-> kind, id |-> id, row |-> row]
    /\ admin_ops' = admin_ops + 1
    /\ UNCHANGED <<user_model, users, accounts, txs, audit, now, pc, loc, accepted,
                   faults, overlapped, response>>

\* BankAccountAdmin's change view, GET.
AdminOpenAccount(a) == a \in Opened /\ AdminOpen("account", a, accounts[a])

\* BankAccountAdmin's change view, POST: the form is saved as it was shown,
\* with the fields the administrator edited: the row stored has the editable
\* fields (user, balance, available_balance, status, is_primary) as posted
\* and the read-only account_number as stored.  The form's validate_unique
\* refuses a second row with the same user and is_primary, and the UPDATE
\* waits for a transaction holding the row.
AdminSave(row) ==
    /\ Quiet
    /\ form # NoForm
    /\ form.kind = "account"
    /\ form.id \in Opened
    /\ \A p \in Procs : form.id \notin LockedBy(p)
    /\ LET posted == [row EXCEPT !.account_number = accounts[form.id].account_number]
       IN  /\ unique_together(Db, form.id, posted)
           /\ accounts' = [accounts EXCEPT ![form.id] = posted]
    /\ form' = NoForm
    /\ UNCHANGED <<user_model, users, txs, audit, now, pc, loc, accepted, admin_ops,
                   faults, overlapped, response>>

\* The change form saved with a status chosen and the other fields as shown.
AdminSetStatus(status) ==
    /\ form # NoForm
    /\ AdminSave([form.row EXCEPT !.status = status])

\* The change form saved with the owner typed into the raw id field user (the
\* one shown or another) and the is_primary box as ticked.
AdminChangeOwner(user, is_primary) ==
    /\ form # NoForm
    /\ user \in Registered
    /\ AdminSave([form.row EXCEPT !.user = user, !.is_primary = is_primary])

\* BankAccountAdmin's add view: a row with the form's defaults (balance and
\* available_balance 0.00, status ACTIVE) for the user named;
\* BankAccount.save() generates the account number from the user's phone
\* number, and the unique index on account_number refuses one in use (the
\* IntegrityError leaves the view, nothing is stored).
AdminAddAccount(user, is_primary) ==
    /\ Quiet
    /\ user \in Registered
    /\ admin_ops < MaxAdminOps
    /\ FreeAcctId # 0
    /\ admin_ops' = admin_ops + 1
    /\ \E number \in generate_account_number(users[user].phone) :
          LET row == [NewAccount(user, number) EXCEPT
                         !.balance = 0, !.available_balance = 0,
                         !.is_primary = is_primary]
          IN  /\ unique_together(Db, FreeAcctId, row)
              /\ accounts' = IF number \in UsedNumbers THEN accounts
                             ELSE [accounts EXCEPT ![FreeAcctId] = row]
    /\ UNCHANGED <<user_model, users, txs, audit, now, pc, loc, form, accepted,
                   faults, overlapped, response>>

\* A delete view of the admin site removes the user u (0: none) and the
\* accounts in gone, with the rows that refer to them: those of transactions
\* (Transaction.account, on_delete=CASCADE) are deleted, those of audit_logs
\* are kept without their user.  The DELETE waits for a transaction holding
\* one of the rows.
AdminDelete(u, gone) ==
    /\ Quiet
    /\ \A p \in Procs : gone \cap LockedBy(p) = {}
    /\ admin_ops < MaxAdminOps
    /\ users' = [v \in Usernames |-> IF v = u THEN NoUser ELSE users[v]]
    /\ accounts' = [a \in AcctIds |-> IF a \in gone THEN DeletedAccount ELSE accounts[a]]
    /\ txs' = SelectSeq(txs, LAMBDA r : r.account \notin gone)
    /\ audit' = WithoutUser(audit, u)
    /\ admin_ops' = admin_ops + 1
    /\ UNCHANGED <<user_model, now, pc, loc, form, accepted, faults, overlapped,
                   response>>

\* BankAccountAdmin's delete view.
AdminDeleteAccount(a) == a \in Opened /\ AdminDelete(0, {a})

\* CustomUserAdmin's delete view: the user's accounts go with the user
\* (BankAccount.user, on_delete=CASCADE).
AdminDeleteUser(u) ==
    /\ u \in Registered
    /\ AdminDelete(u, {a \in Opened : accounts[a].user = u})

\* CustomUserAdmin's change view, GET.
AdminOpenUser(u) == u \in Registered /\ AdminOpen("user", u, users[u])

\* CustomUserAdmin's change view, POST, get_object(): the row is read again
\* (the page says the user does not exist when it is gone) and the form is
\* bound to that instance with the phone number posted (the one shown or
\* another); transaction_pin_hash is no field of the form, so the instance
\* keeps the one just read.
AdminSetPhone(phone) ==
    /\ Quiet
    /\ form # NoForm
    /\ form.kind = "user"
    /\ form' = IF users[form.id] = NoUser THEN NoForm
               ELSE [form EXCEPT !.kind = "user_read",
                                 !.row = [users[form.id] EXCEPT !.phone = phone]]
    /\ UNCHANGED <<user_model, users, accounts, txs, audit, now, pc, loc, accepted,
                   admin_ops, faults, overlapped, response>>

\* form.is_valid() of the change form: validate_unique sends its SELECT for
\* phone_number, and the form is shown again with the error when another
\* user has the number.
AdminValidateUser ==
    /\ Quiet
    /\ form # NoForm
    /\ form.kind = "user_read"
    /\ form' = IF form.row.phone \in PhonesOfOthers(form.id) THEN NoForm
               ELSE [form EXCEPT !.kind = "user_valid"]
    /\ UNCHANGED <<user_model, users, accounts, txs, audit, now, pc, loc, accepted,
                   admin_ops, faults, overlapped, response>>

\* CustomUserAdmin's add view, POST (UserAdmin.add_fieldsets: username and
\* the two passwords): validate_unique sends its SELECT for the username and
\* finds it free; the instance has the defaults of the other columns
\* (phone_number '', no transaction_pin_hash).
AdminAddUser(username) ==
    /\ Quiet
    /\ admin_ops < MaxAdminOps
    /\ username \in Usernames \ Registered
    /\ form' = [id |-> username, kind |-> "user_add",
                row |-> [phone |-> <<>>, pin |-> NoPin]]
    /\ admin_ops' = admin_ops + 1
    /\ UNCHANGED <<user_model, users, accounts, txs, audit, now, pc, loc, accepted,
                   faults, overlapped, response>>

\* save_model() of CustomUserAdmin, obj.save(): the change view's UPDATE of
\* every column of the instance (an INSERT of the row when it is gone), the
\* add view's INSERT, and the COMMIT of the view's atomic block.  The unique
\* indexes on phone_number and on username may refuse the row
\* (IntegrityError, nothing is stored).
AdminSaveUser ==
    /\ Quiet
    /\ form # NoForm
    /\ form.kind \in {"user_valid", "user_add"}
    /\ users' = IF \/ form.row.phone \in PhonesOfOthers(form.id)
                   \/ form.kind = "user_add" /\ users[form.id] # NoUser
                THEN users
                ELSE [users EXCEPT ![form.id] = form.row]
    /\ form' = NoForm
    /\ UNCHANGED <<user_model, accounts, txs, audit, now, pc, loc, accepted,
                   admin_ops, faults, overlapped, response>>

\* AuditLogAdmin: adding and changing are refused (has_add_permission,
\* has_change_permission); has_delete_permission is the ModelAdmin default,
\* so the delete view and the "delete selected" action remove an entry.
AdminDeleteAuditLog(e) ==
    /\ Quiet
    /\ BagIn(e, audit)
    /\ admin_ops < MaxAdminOps
    /\ audit' = audit (-) SetToBag({e})
    /\ admin_ops' = admin_ops + 1
    /\ UNCHANGED <<user_model, users, accounts, txs, now, pc, loc, form, accepted,
                   faults, overlapped, response>>

\* The form of TransactionAdmin is valid: the raw id field account names a
\* stored account, the choices are among those of the model and the amount is
\* at least 0.01 (MinValueValidator).
TransactionFormValid(row) ==
    /\ row.account \in Opened
    /\ row.transaction_type \in {"CREDIT", "DEBIT"}
    /\ row.status \in {"PENDING", "COMPLETED", "FAILED", "CANCELLED"}
    /\ row.amount >= 1

\* TransactionAdmin's change view: only id, reference_number, created_at and
\* updated_at are read-only; the row is saved with the other fields as
\* posted, one of them at least edited (no other operation writes a stored
\* row, so the form shows it as it is).
AdminSaveTransaction(i, row) ==
    /\ Quiet
    /\ i \in 1 .. Len(txs)
    /\ row # txs[i]
    /\ row.reference_number = txs[i].reference_number
    /\ TransactionFormValid(row)
    /\ admin_ops < MaxAdminOps
    /\ txs' = [txs EXCEPT ![i] = row]
    /\ admin_ops' = admin_ops + 1
    /\ UNCHANGED <<user_model, users, accounts, audit, now, pc, loc, form, accepted,
                   faults, overlapped, response>>

\* TransactionAdmin's delete view removes the row.
AdminDeleteTransaction(i) ==
    /\ Quiet
    /\ i \in 1 .. Len(txs)
    /\ admin_ops < MaxAdminOps
    /\ txs' = [j \in 1 .. Len(txs) - 1 |-> IF j < i THEN txs[j] ELSE txs[j + 1]]
    /\ admin_ops' = admin_ops + 1
    /\ UNCHANGED <<user_model, users, accounts, audit, now, pc, loc, form, accepted,
                   faults, overlapped, response>>


\* ---------------------------------------------------------------- transfers
\* TransactionViewSet.transfer: the request is authenticated and
\* serializer.is_valid() fails (HTTP 400) or raises (HTTP 500) before
\* validate() sends its first query: a field is refused or the accounts are
\* the same.
TransferRejected(p, req) ==
    /\ p = FreeHandler
    /\ req.user \in Registered
    /\ LET checked == before_source(request_user(req.user), req)
       IN  /\ checked.kind # "query"
           /\ Answer(Respond("transfer", checked.kind,
                             IF checked.kind = "crash" THEN 500 ELSE 400))
    /\ UNCHANGED <<user_model, users, accounts, txs, audit, now, form, accepted,
                   admin_ops, faults>>

\* TransactionViewSet.transfer: the request is authenticated, the fields pass
\* (the PIN is checked against request.user) and validate() has come to its
\* first query.  The transfers accepted so far and those between
\* authentication and the end of validate() are counted.
TransferAuthenticated(p, req) ==
    /\ accepted + Cardinality({q \in Procs : pc[q] \in {"authenticated", "src_read"}})
          < MaxTransfers
    /\ req.user \in Registered
    /\ before_source(request_user(req.user), req).kind = "query"
    /\ Authenticated(p, req.user, "authenticated", req)

\* validate()'s first query, BankAccount.objects.get(account_number=...,
\* user=user), raises DoesNotExist (HTTP 400).
TransferSourceRejected(p) ==
    /\ pc[p] = "authenticated"
    /\ SourceLookup(Db, loc[p].req.from_account, loc[p].req.user) = {}
    /\ Return(p, {"authenticated"}, Respond("transfer", "invalid", 400))
    /\ UNCHANGED <<user_model, users, accounts, txs, audit, now, form, accepted,
                   admin_ops, faults, overlapped>>

\* validate()'s first query returns the source account.
TransferSourceRead(p) ==
    /\ pc[p] = "authenticated"
    /\ LET found == SourceLookup(Db, loc[p].req.from_account, loc[p].req.user)
       IN  /\ found # {}
           /\ Goto(p, "authenticated", "src_read",
                   [loc[p] EXCEPT !.src = Got(found), !.from_account = Instance(Db, found)])
    /\ UNCHANGED <<user_model, users, accounts, txs, audit, now, form, accepted,
                   admin_ops, faults, overlapped, response>>

\* validate()'s second query, BankAccount.objects.get(account_number=...),
\* and the checks that follow it, on the source as the first query read it:
\* one of them fails (HTTP 400).
TransferDestinationRejected(p) ==
    /\ pc[p] = "src_read"
    /\ validate(loc[p].req, loc[p].from_account,
                Instance(Db, DestinationLookup(Db, loc[p].req.to_account))) # "ok"
    /\ Return(p, {"src_read"}, Respond("transfer", "invalid", 400))
    /\ UNCHANGED <<user_model, users, accounts, txs, audit, now, form, accepted,
                   admin_ops, faults, overlapped>>

\* validate()'s second query and the checks that follow it pass:
\* serializer.is_valid() returns True, and validated_data holds the two model
\* instances as they were read.
TransferAccepted(p) ==
    /\ pc[p] = "src_read"
    /\ LET found == DestinationLookup(Db, loc[p].req.to_account)
       IN  /\ validate(loc[p].req, loc[p].from_account, Instance(Db, found)) = "ok"
           /\ Goto(p, "src_read", "validated",
                   [loc[p] EXCEPT !.dst = Got(found), !.to_account = Instance(Db, found),
                                  !.xfer = accepted + 1])
    /\ accepted' = accepted + 1
    /\ UNCHANGED <<user_model, users, accounts, txs, audit, now, form, admin_ops,
                   faults, overlapped, response>>

\* One of validate()'s two queries raises a database error: is_valid() is
\* left by the exception, which the view does not catch there (HTTP 500).
ValidationQueryFails(p) ==
    /\ pc[p] \in {"authenticated", "src_read"}
    /\ Return(p, {"authenticated", "src_read"}, Uncaught("transfer"))
    /\ UNCHANGED <<user_model, users, accounts, txs, audit, now, form, accepted,
                   admin_ops, faults, overlapped>>

\* A debit that forgets the available_balance column.
DebitedBalanceOnly(account, amount) ==
    [account EXCEPT !.balance = @ - amount]

\* from_account.balance -= amount; from_account.available_balance -= amount
Debited(account, amount) ==
    [account EXCEPT !.balance = @ - amount, !.available_balance = @ - amount]

\* to_account.balance += amount; to_account.available_balance += amount
Credited(account, amount) ==
    [account EXCEPT !.balance = @ + amount, !.available_balance = @ + amount]

\* A statement of TransferSerializer.save's atomic block.
InSave(p, from, to, fields) ==
    /\ Goto(p, from, to, fields)
    /\ UNCHANGED <<user_model, users, accounts, txs, audit, now, form, accepted,
                   admin_ops, faults, overlapped, response>>

\* from_account.save(): the instance, with every field, is written to its row
\* (the UPDATE is refused by the index on (user, is_primary) otherwise).
SaveFrom(p) ==
    /\ pc[p] = "validated"
    /\ \A q \in Procs \ {p} : loc[p].src \notin LockedBy(q)
    /\ LET obj == Debited(loc[p].from_account, loc[p].req.amount)
       IN  /\ unique_together(Db, loc[p].src, obj)
           /\ InSave(p, "validated", "from_saved",
                     [loc[p] EXCEPT !.from_account = obj,
                                    !.writes = Append(@, WriteAccount(loc[p].src, obj))])

\* to_account.save()
SaveTo(p) ==
    /\ pc[p] = "from_saved"
    /\ \A q \in Procs \ {p} : loc[p].dst \notin LockedBy(q)
    /\ LET obj == Credited(loc[p].to_account, loc[p].req.amount)
       IN  /\ unique_together(Db, loc[p].dst, obj)
           /\ InSave(p, "from_saved", "to_saved",
                     [loc[p] EXCEPT !.to_account = obj,
                                    !.writes = Append(@, WriteAccount(loc[p].dst, obj))])

\* Transaction.objects.create(...) up to the loop of
\* generate_reference_number: the arguments are evaluated (the description
\* reads the user of the other account, who must be stored), then
\* Transaction.save() reads the clock and draws the first suffix.
GenerateReference(p, from, to, user) ==
    /\ pc[p] = from
    /\ users[user] # NoUser
    /\ \E reference \in generate_reference_number(p) :
          InSave(p, from, to, [loc[p] EXCEPT !.reference = reference])

GenerateDebitReference(p) ==
    /\ pc[p] = "to_saved"
    /\ GenerateReference(p, "to_saved", "debit_draw", loc[p].to_account.user)

GenerateCreditReference(p) ==
    /\ pc[p] = "debit_row"
    /\ GenerateReference(p, "debit_row", "credit_draw", loc[p].from_account.user)

\* The loop's query, Transaction.objects.filter(reference_number=reference)
\* .exists(), finds the reference: another suffix is drawn for the timestamp
\* read before the loop.
DrawAgain(p) ==
    /\ pc[p] \in DOMAIN AfterDraw
    /\ ReferenceExists(p, loc[p].reference)
    /\ \E d \in random_choices(p, loc[p].reference[2]) :
          InSave(p, pc[p], pc[p],
                 [loc[p] EXCEPT !.reference = TxnReference(loc[p].reference[2], d)])

\* The loop's query does not find the reference: generate_reference_number
\* returns it.
ReferenceReturned(p) ==
    /\ pc[p] \in DOMAIN AfterDraw
    /\ ~ReferenceExists(p, loc[p].reference)
    /\ InSave(p, pc[p], AfterDraw[pc[p]], loc[p])

\* A DEBIT row whose balance_before is read after the debit.
DebitTransactionStale(p) ==
    [account |-> loc[p].src, transaction_type |-> "DEBIT",
     amount |-> loc[p].req.amount,
     balance_before |-> loc[p].from_account.balance,
     balance_after |-> loc[p].from_account.balance, status |-> "COMPLETED",
     reference_number |-> loc[p].reference, xfer |-> loc[p].xfer]

\* The DEBIT row of Transaction.objects.create(account=from_account, ...)
DebitTransaction(p) ==
    [account |-> loc[p].src, transaction_type |-> "DEBIT",
     amount |-> loc[p].req.amount,
     balance_before |-> loc[p].from_account.balance + loc[p].req.amount,
     balance_after |-> loc[p].from_account.balance, status |-> "COMPLETED",
     reference_number |-> loc[p].reference, xfer |-> loc[p].xfer]

\* The CREDIT row of Transaction.objects.create(account=to_account, ...)
CreditTransaction(p) ==
    [account |-> loc[p].dst, transaction_type |-> "CREDIT",
     amount |-> loc[p].req.amount,
     balance_before |-> loc[p].to_account.balance - loc[p].req.amount,
     balance_after |-> loc[p].to_account.balance, status |-> "COMPLETED",
     reference_number |-> loc[p].reference, xfer |-> loc[p].xfer]

\* A reference_number column without its unique index.
UniqueReferenceUnchecked(p, reference) == TRUE

\* The unique index on reference_number lets the INSERT through: no committed
\* row has the reference, and no row of a transaction still open has it (the
\* INSERT would wait for that transaction).
UniqueReference(p, reference) ==
    /\ reference \notin RefsIn(txs)
    /\ \A q \in Procs \ {p} : reference \notin PendingRefs(q)

\* super().save(): the INSERT of the row.
InsertTransaction(p, from, to, row) ==
    /\ pc[p] = from
    /\ UniqueReference(p, row.reference_number)
    /\ InSave(p, from, to,
              [loc[p] EXCEPT !.writes = Append(@, WriteTx(row)), !.reference = NoRef])

InsertDebit(p) == InsertTransaction(p, "debit_ref", "debit_row", DebitTransaction(p))

InsertCredit(p) == InsertTransaction(p, "credit_ref", "credit_row", CreditTransaction(p))

\* A save() whose writes are not undone by the exception.
SaveWithoutRollback(db, ws, exception) == ApplyWrites(db, ws)

\* TransferSerializer.save's atomic block, left by its return statement
\* (exception = FALSE) or by an exception.
save(db, ws, exception) == atomic_exit(db, ws, exception, FALSE)

\* The return statement leaves the atomic block: COMMIT, which the foreign
\* keys of the rows written must let through.
Commit(p) ==
    /\ pc[p] = "credit_row"
    /\ LET db == save(Db, loc[p].writes, FALSE)
       IN  /\ ForeignKeys(db)
           /\ users' = db.users
           /\ accounts' = db.accounts
           /\ txs' = db.txs
    /\ Goto(p, "credit_row", "committed", [loc[p] EXCEPT !.writes = <<>>])
    /\ UNCHANGED <<user_model, audit, now, form, accepted, admin_ops, faults,
                   overlapped, response>>

\* The next statement of the atomic block (or its COMMIT) raises: a lost
\* connection, a lock timeout, a deadlock victim, a duplicate reference, a
\* user or an account that is not stored any more.
\* The block is left by the exception and save() raises ValidationError.
PersistFail(p) ==
    /\ pc[p] \in InAtomic
    /\ LET db == save(Db, loc[p].writes, TRUE)
       IN  /\ users' = db.users
           /\ accounts' = db.accounts
           /\ txs' = db.txs
    /\ Return(p, InAtomic, Respond("transfer", "failed", 400))
    /\ UNCHANGED <<user_model, audit, now, form, accepted, admin_ops, faults,
                   overlapped>>

\* A view that answers a failed audit entry like a failed transfer.
AuditFailureAsTransferError(p, audit_raises) ==
    /\ pc[p] = "committed"
    /\ Leave(p, {"committed"})
    /\ Audited(AuditLog(loc[p].req.user, "TRANSFER", loc[p].xfer), audit_raises,
               Respond("transfer", "failed", 400), Respond("transfer", "ok", 200))
    /\ UNCHANGED <<user_model, users, accounts, txs, now, form, accepted, admin_ops,
                   overlapped>>

\* AuditLog.objects.create(action_type='TRANSFER', ...) and the response; a
\* failure is caught by the view's `except Exception` (HTTP 500).
AuditAndRespond(p, audit_raises) ==
    /\ pc[p] = "committed"
    /\ Leave(p, {"committed"})
    /\ Audited(AuditLog(loc[p].req.user, "TRANSFER", loc[p].xfer), audit_raises,
               Respond("transfer", "error", 500), Respond("transfer", "ok", 200))
    /\ UNCHANGED <<user_model, users, accounts, txs, now, form, accepted, admin_ops,
                   overlapped>>

\* ------------------------------------------------- admin: adding a row
\* The row the administrator posts to TransactionAdmin's add form: a completed
\* credit of 35000.00 on account 1 with both balances left at 0.
PostedTransaction ==
    [account |-> 1, amount |-> 3500000, balance_after |-> 0, balance_before |-> 0,
     status |-> "COMPLETED", transaction_type |-> "CREDIT"]

\* TransactionAdmin's add view, POST (has_add_permission is the ModelAdmin
\* default): the form is valid, and Transaction.save() of the new row reads
\* the clock and draws the first suffix.
AdminAddTransaction(p, posted) ==
    /\ admin_ops < MaxAdminOps
    /\ TransactionFormValid(posted)
    /\ \E reference \in generate_reference_number(p) :
          Begin(p, "admin_draw", [IdleLoc EXCEPT !.req = posted, !.reference = reference])
    /\ admin_ops' = admin_ops + 1
    /\ UNCHANGED <<user_model, users, accounts, txs, audit, now, form, accepted,
                   faults, response>>

\* super().save(): the INSERT of the row, with the fields as posted and the
\* reference generated, inside the view's atomic block.
AdminInsertTransaction(p) ==
    /\ pc[p] = "admin_ref"
    /\ UniqueReference(p, loc[p].reference)
    /\ LET posted == loc[p].req
           row == [account |-> posted.account,
                   transaction_type |-> posted.transaction_type,
                   amount |-> posted.amount, balance_before |-> posted.balance_before,
                   balance_after |-> posted.balance_after, status |-> posted.status,
                   reference_number |-> loc[p].reference, xfer |-> 0]
       IN  InSave(p, "admin_ref", "admin_row", [loc[p] EXCEPT !.writes = <<WriteTx(row)>>])

\* The view's atomic block is left: COMMIT.
AdminCommitTransaction(p) ==
    /\ pc[p] = "admin_row"
    /\ LET db == atomic_exit(Db, loc[p].writes, FALSE, FALSE)
       IN  /\ ForeignKeys(db)
           /\ txs' = db.txs
    /\ Leave(p, InAdminAdd)
    /\ UNCHANGED <<user_model, users, accounts, audit, now, form, accepted,
                   admin_ops, faults, overlapped, response>>

\* A statement of the add view raises (the INSERT meets a duplicate
\* reference, the account is gone): the atomic block rolls back and the
\* exception leaves the view.
AdminAddFails(p) ==
    /\ pc[p] \in InAdminAdd
    /\ Return(p, InAdminAdd, Uncaught("admin"))
    /\ UNCHANGED <<user_model, users, accounts, txs, audit, now, form, accepted,
                   admin_ops, faults, overlapped>>
\* ------------------------------------------------------------ specifications
\* The registrations clients send: client 1 with PhoneA, client 2 with
\* PhoneA, with PhoneB (PhoneA's digits) or with PhoneC.
RegistrationInputs ==
    {[phone |-> PhoneA, username |-> 1], [phone |-> PhoneA, username |-> 2],
     [phone |-> PhoneB, username |-> 2], [phone |-> PhoneC, username |-> 2]}

\* The clients who set a transaction PIN.
PinClients == {1, 2} \cap Usernames

\* The phone numbers the clients of the provider's deployment registered with.
Clients == <<PhoneA, PhoneC, PhoneD, PhoneE>>

NumberOf(k) == CHOOSE number \in generate_account_number(Clients[k]) : TRUE

\* The transfer requests that can pass validation: a client with a PIN sends
\* a positive amount under that PIN from its account, the first client to
\* the second or the third, the second client to the first or the fourth.
Routes == {<<1, 2>>, <<1, 3>>, <<2, 1>>, <<2, 4>>}

PairInputs ==
    {req \in Requests :
        /\ req.pin = PinGood /\ req.amount > 0
        /\ \E route \in Routes :
              /\ req.user = route[1]
              /\ req.from_account = NumberOf(route[1])
              /\ req.to_account = NumberOf(route[2])}

\* Those between the accounts of the first two clients.
TransferInputs == {req \in PairInputs : req.to_account \in {NumberOf(1), NumberOf(2)}}

\* The transfer requests sent to be refused, all by client 1: every PIN and
\* amount from PhoneA's account to PhoneC's, and the PIN and amount above to
\* the same account and from an account of somebody else.
RefusedInputs ==
    {req \in Requests :
        /\ req.user = 1
        /\ \/ /\ req.from_account \in generate_account_number(PhoneA)
              /\ req.to_account \in generate_account_number(PhoneC)
           \/ /\ req.from_account = req.to_account
              /\ req.from_account \in generate_account_number(PhoneA)
              /\ req.pin = PinGood /\ req.amount > 0
           \/ /\ req.from_account \in generate_account_number(PhoneC)
              /\ req.to_account \in generate_account_number(PhoneA)
              /\ req.pin = PinGood /\ req.amount > 0}

\* Actions of both deployments: the responses going out, the requests that
\* are refused (client 1 confirms a PIN with another one) and the account
\* change form of the admin site, opened on the first account and saved with
\* a status.
Common ==
    \/ Deliver
    \/ SetPinRejected(1, PinGood, PinOther)
    \/ AdminOpenAccount(1)
    \/ \E status \in {"ACTIVE", "SUSPENDED"} : AdminSetStatus(status)
    \/ \E p \in Procs, req \in RefusedInputs : TransferRejected(p, req)

\* update_profile of one of the views, called by client 1 with one of the
\* phone numbers.
Profile(views, phones) ==
    \/ \E p \in Procs, view \in views, phone \in phones :
          UpdateProfileAuthenticated(p, 1, view, phone)
    \/ \E p \in Procs : UpdateProfileRejected(p)
    \/ \E p \in Procs : UpdateProfileValidated(p)
    \/ \E p \in Procs : UpdateProfileSave(p)
    \/ \E p \in Procs, audit_raises \in BOOLEAN : UpdateProfileAudit(p, audit_raises)

\* The program as src/ has it: User has no PIN methods, and the tables are
\* empty.
Init ==
    /\ user_model = "source"
    /\ users = [u \in Usernames |-> NoUser]
    /\ accounts = [a \in AcctIds |-> NoAccount]
    /\ txs = <<>>
    /\ audit = EmptyBag
    /\ now = 0
    /\ pc = [p \in Procs |-> "idle"]
    /\ loc = [p \in Procs |-> IdleLoc]
    /\ form = NoForm
    /\ accepted = 0
    /\ admin_ops = 0
    /\ faults = 0
    /\ overlapped = FALSE
    /\ response = NoResponse

\* The statements of AuthViewSet.register; update_profile of UserViewSet with
\* the phone number client 2 may have; login, logout and change_password,
\* called by client 1; set_pin; the PIN hash of client 1 stored; the admin
\* site's add view (an account for the first user, with the is_primary box
\* ticked or not) and delete view (the first account) of BankAccountAdmin.
Next ==
    \/ Common
    \/ \E p \in Procs, r \in RegistrationInputs : RegisterReceived(p, r)
    \/ \E p \in Procs : RegisterEmailChecked(p)
    \/ \E p \in Procs : RegisterValidated(p)
    \/ \E p \in Procs : RegisterRejected(p)
    \/ \E p \in Procs : RegisterCollides(p)
    \/ \E p \in Procs, welcome_raises \in WelcomeOutcomes :
          RegisterCreate(p, welcome_raises)
    \/ \E p \in Procs, audit_raises \in BOOLEAN : RegisterAudit(p, audit_raises)
    \/ Profile({"UserViewSet"}, {PhoneC})
    \/ LoginRejected(1)
    \/ \E p \in Procs : LoginValidated(p, 1)
    \/ \E p \in Procs, audit_raises \in BOOLEAN : LoginAudit(p, audit_raises)
    \/ \E p \in Procs : LogoutAuthenticated(p, 1)
    \/ \E p \in Procs, audit_raises \in BOOLEAN : Logout(p, audit_raises)
    \/ \E p \in Procs : ChangePasswordValidated(p, 1)
    \/ \E p \in Procs : ChangePasswordSave(p)
    \/ \E p \in Procs, audit_raises \in BOOLEAN : ChangePasswordAudit(p, audit_raises)
    \/ ChangePasswordCrash(1)
    \/ \E u \in PinClients : SetPinCrash(u, PinGood)
    \/ StorePinHash(1, PinGood)
    \/ \E is_primary \in BOOLEAN : AdminAddAccount(1, is_primary)
    \/ AdminDeleteAccount(1)

Spec == Init /\ [][Next]_vars

\* The program with the PIN methods of the identity provider in place, after
\* the registrations of its clients (with PhoneA, PhoneC, PhoneD and PhoneE)
\* and the set_pin calls of the first two, all served one after another
\* without a failure.
InitAuth ==
    /\ user_model = "provider"
    /\ users = [u \in Usernames |->
                  IF u \in DOMAIN Clients
                  THEN [phone |-> Clients[u],
                        pin |-> IF u \in PinClients THEN PinGood ELSE NoPin]
                  ELSE NoUser]
    /\ accounts = [a \in AcctIds |->
                     IF a \in DOMAIN Clients THEN NewAccount(a, NumberOf(a))
                     ELSE NoAccount]
    /\ txs = [a \in DOMAIN Clients |-> WelcomeTransaction(a, NumberOf(a))]
    /\ audit = SetToBag({AuditLog(u, "REGISTER", 0) : u \in DOMAIN Clients}
                        \cup {AuditLog(u, "PIN_SET", 0) : u \in PinClients})
    /\ now = 0
    /\ pc = [p \in Procs |-> "idle"]
    /\ loc = [p \in Procs |-> IdleLoc]
    /\ form = NoForm
    /\ accepted = 0
    /\ admin_ops = 0
    /\ faults = 0
    /\ overlapped = FALSE
    /\ response = NoResponse

\* The statements of TransactionViewSet.transfer for the requests that get
\* as far as validate()'s queries, and the clock they read.
Transfer(inputs) ==
    \/ Tick
    \/ \E p \in Procs, req \in inputs : TransferAuthenticated(p, req)
    \/ \E p \in Procs : TransferSourceRejected(p)
    \/ \E p \in Procs : TransferSourceRead(p)
    \/ \E p \in Procs : TransferDestinationRejected(p)
    \/ \E p \in Procs : TransferAccepted(p)
    \/ \E p \in Procs : ValidationQueryFails(p)
    \/ \E p \in Procs : SaveFrom(p)
    \/ \E p \in Procs : SaveTo(p)
    \/ \E p \in Procs : GenerateDebitReference(p)
    \/ \E p \in Procs : InsertDebit(p)
    \/ \E p \in Procs : GenerateCreditReference(p)
    \/ \E p \in Procs : InsertCredit(p)
    \/ \E p \in Procs : DrawAgain(p)
    \/ \E p \in Procs : ReferenceReturned(p)
    \/ \E p \in Procs : Commit(p)
    \/ \E p \in Procs : PersistFail(p)
    \/ \E p \in Procs, audit_raises \in BOOLEAN : AuditAndRespond(p, audit_raises)

\* The transfer endpoint, for the requests among the accounts of four clients
\* and those of client 1 that are refused.
NextAuth == Common \/ Transfer(PairInputs \cup RefusedInputs)

SpecAuth == InitAuth /\ [][NextAuth]_vars

\* The transfers between the first two clients and set_pin called by the
\* first with another PIN, together with the admin
\* site's screens for the accounts (the change form of the second account,
\* given to the first user or left to the second; an account added for the
\* first user; the first account deleted), the users (one of the first two
\* deleted) and the transaction rows (the DEBIT row of a transfer saved with
\* another status, another amount or both; the CREDIT row of a transfer
\* deleted; a CREDIT of 35000.00 on the first account added).
NextAdmin ==
    \/ Deliver
    \/ Transfer(TransferInputs)
    \/ AdminOpenAccount(2)
    \/ \E user \in {1, 2}, is_primary \in BOOLEAN : AdminChangeOwner(user, is_primary)
    \/ \E is_primary \in BOOLEAN : AdminAddAccount(1, is_primary)
    \/ AdminDeleteAccount(1)
    \/ \E u \in {1, 2} : AdminDeleteUser(u)
    \/ \E i \in {j \in 1 .. Len(txs) : txs[j].xfer > 0 /\ txs[j].transaction_type = "DEBIT"},
          status \in {"COMPLETED", "FAILED"}, amount \in {1, 3500000} :
          AdminSaveTransaction(i, [txs[i] EXCEPT !.status = status, !.amount = amount])
    \/ \E i \in {j \in 1 .. Len(txs) : txs[j].xfer > 0 /\ txs[j].transaction_type = "CREDIT"} :
          AdminDeleteTransaction(i)
    \/ \E p \in Procs :
          AdminAddTransaction(p, PostedTransaction)
    \/ \E p \in Procs : AdminInsertTransaction(p)
    \/ \E p \in Procs : AdminCommitTransaction(p)
    \/ \E p \in Procs : AdminAddFails(p)
    \/ \E p \in Procs : SetPinValidated(p, 1, PinOther)
    \/ \E p \in Procs, save_raises \in BOOLEAN : SetPinSave(p, save_raises)
    \/ \E p \in Procs, audit_raises \in BOOLEAN : SetPinAudit(p, audit_raises)
    \/ \E p \in Procs, req \in TransferInputs : TransferRejected(p, req)

SpecAdmin == InitAuth /\ [][NextAdmin]_vars

\* The calls of client 1 (set_pin with another PIN, update_profile of
\* UserProfileViewSet with a phone number that is free or with the one of
\* client 2), together with
\* the admin site's screens for the users (the change form of the first one
\* saved with the phone number shown or with PhoneB, his delete view, a user
\* added under a free username) and for the audit log (the entries of
\* set_pin).
NextAccount ==
    \/ Deliver
    \/ \E p \in Procs : SetPinValidated(p, 1, PinOther)
    \/ \E p \in Procs, save_raises \in BOOLEAN : SetPinSave(p, save_raises)
    \/ \E p \in Procs, audit_raises \in BOOLEAN : SetPinAudit(p, audit_raises)
    \/ Profile({"UserProfileViewSet"}, {PhoneB, PhoneC})
    \/ AdminOpenUser(1)
    \/ \E phone \in {PhoneA, PhoneB} : AdminSetPhone(phone)
    \/ AdminValidateUser
    \/ \E username \in Usernames : AdminAddUser(username)
    \/ AdminSaveUser
    \/ AdminDeleteUser(1)
    \/ \E e \in {x \in BagToSet(audit) : x.action_type = "PIN_SET"} :
          AdminDeleteAuditLog(e)

SpecAccount == InitAuth /\ [][NextAccount]_vars

\* ================================================================= properties
\* The rows of the transactions table, as a set.
Rows == {txs[i] : i \in 1 .. Len(txs)}

\* The committed rows of the k-th accepted transfer, in insertion order.
TransferRows(k) == SelectSeq(txs, LAMBDA r : r.xfer = k)

\* The transfers whose handler has returned or failed.
Finished == {k \in 1 .. accepted : \A p \in Procs : loc[p].xfer # k}

\* Sum over the COMPLETED rows of account a: +amount for CREDIT, -amount for
\* DEBIT.
RECURSIVE SignedSum(_, _)
SignedSum(rows, a) ==
    IF rows = <<>> THEN 0
    ELSE LET r == Head(rows)
             signed == IF r.account # a \/ r.status # "COMPLETED" THEN 0
                       ELSE IF r.transaction_type = "CREDIT" THEN r.amount
                       ELSE 0 - r.amount
         IN  signed + SignedSum(Tail(rows), a)

\* The preconditions of a transfer other than the PIN, as the specification
\* lists them.
Preconditions(db, req) ==
    /\ req.amount > 0
    /\ req.from_account # req.to_account
    /\ \E a \in AcctIds :
          /\ db.accounts[a] \notin {NoAccount, DeletedAccount}
          /\ db.accounts[a].account_number = req.from_account
          /\ db.accounts[a].user = req.user
          /\ db.accounts[a].status = "ACTIVE"
          /\ db.accounts[a].available_balance >= req.amount
    /\ \E b \in AcctIds :
          /\ db.accounts[b] \notin {NoAccount, DeletedAccount}
          /\ db.accounts[b].account_number = req.to_account
          /\ db.accounts[b].status = "ACTIVE"

\* C1: as long as the requests have been served one after another and the
\* admin site has not been used, every account's stored balance is the signed
\* sum of its COMPLETED transaction rows (+amount for a CREDIT, -amount for a
\* DEBIT).
C1_LedgerIdentity ==
    (~overlapped /\ admin_ops = 0)
    => \A a \in Opened : accounts[a].balance = SignedSum(txs, a)

\* The rows of every transfer are none, or one COMPLETED DEBIT and one
\* COMPLETED CREDIT of the same amount on two accounts.
PairsComplete ==
    \A k \in 1 .. MaxTransfers :
        LET rows == TransferRows(k)
        IN  \/ rows = <<>>
            \/ /\ Len(rows) = 2
               /\ rows[1].transaction_type = "DEBIT"
               /\ rows[2].transaction_type = "CREDIT"
               /\ rows[1].status = "COMPLETED"
               /\ rows[2].status = "COMPLETED"
               /\ rows[1].amount = rows[2].amount
               /\ rows[1].account # rows[2].account

\* A step that changes a stored balance commits the whole pair of one
\* transfer, and both accounts hold the balances the rows record.
BalancesMoveWithPair ==
    \A a \in Opened :
        (accounts'[a].balance # accounts[a].balance
           \/ accounts'[a].available_balance # accounts[a].available_balance)
        => \E k \in 1 .. MaxTransfers :
              /\ TransferRows(k) = <<>>
              /\ Len(TransferRows(k)') = 2
              /\ \E i \in 1 .. 2 : TransferRows(k)'[i].account = a
              /\ \A i \in 1 .. 2 :
                    accounts'[TransferRows(k)'[i].account].balance
                        = TransferRows(k)'[i].balance_after

\* C2: a transfer commits one DEBIT row and one CREDIT row, both COMPLETED,
\* or no row; no committed state has half a pair, and no step of a transfer's
\* handler debits the source without crediting the destination.
C2_AtomicPair == [][PairsComplete' /\ (pc' # pc => BalancesMoveWithPair)]_vars

\* One transfer is committed with its pair and another has failed with no row.
C2_Witness ==
    /\ \E k \in Finished : Len(TransferRows(k)) = 2
    /\ \E k \in Finished : TransferRows(k) = <<>>

\* The transfers that debited account a.
DebitsFrom(a) ==
    {k \in 1 .. accepted :
        \E r \in Rows : r.xfer = k /\ r.transaction_type = "DEBIT" /\ r.account = a}

\* The account credited by transfer k.
DestinationOf(k) ==
    {r.account : r \in {x \in Rows : x.xfer = k /\ x.transaction_type = "CREDIT"}}

\* C3: once the transfers from an account X that only sends (opened with its
\* welcome credit), to distinct destinations, have all returned, and the
\* admin site has not been used, X holds its opening balance minus the
\* amounts of the successful ones, and they did not move more than it had.
C3_NoLostUpdate ==
    \A a \in Opened :
        (/\ InFlight = {}
         /\ admin_ops = 0
         /\ \E r \in Rows : r.account = a /\ r.xfer = 0
         /\ \A r \in Rows : r.account = a /\ r.transaction_type = "CREDIT" => r.xfer = 0
         /\ \A j, k \in DebitsFrom(a) : j # k => DestinationOf(j) # DestinationOf(k))
        => /\ accounts[a].balance = SignedSum(txs, a)
           /\ SignedSum(txs, a) >= 0

\* C4: every step of a transfer's handler other than its COMMIT leaves the
\* accounts and the transaction rows as they are stored: a transfer that
\* fails during persistence has changed neither.
C4_RollbackLeavesTables ==
    [][\A p \in Procs :
          (pc'[p] # pc[p] /\ pc'[p] # "committed")
          => (accounts' = accounts /\ txs' = txs)]_vars

\* A transfer has just failed during persistence and no row of it is stored.
C4_Witness ==
    /\ response = Respond("transfer", "failed", 400)
    /\ \E k \in Finished : TransferRows(k) = <<>>
    /\ \A a \in Opened : accounts[a].balance = SignedSum(txs, a)

\* C5: a request with a positive amount and the requester's PIN, from an
\* ACTIVE account of the requester holding the amount to another ACTIVE
\* account, passes validation.
C5_CorrectTransferSucceeds ==
    \A req \in Requests :
        (/\ req.user \in Registered
         /\ users[req.user].pin = req.pin
         /\ Preconditions(Db, req))
        => is_valid(Db, req).kind = "valid"

\* The preconditions of a transfer other than the PIN, on the two account
\* instances validate() has read for handler p.
PreconditionsRead(p) ==
    /\ loc[p].req.amount > 0
    /\ loc[p].req.from_account # loc[p].req.to_account
    /\ loc[p].from_account \notin {NoAccount, DeletedAccount}
    /\ loc[p].to_account \notin {NoAccount, DeletedAccount}
    /\ loc[p].from_account.account_number = loc[p].req.from_account
    /\ loc[p].from_account.user = loc[p].req.user
    /\ loc[p].from_account.status = "ACTIVE"
    /\ loc[p].from_account.available_balance >= loc[p].req.amount
    /\ loc[p].to_account.account_number = loc[p].req.to_account
    /\ loc[p].to_account.status = "ACTIVE"

\* C6: the step that answers a transfer with a validation error (or with an
\* error of the validation itself) leaves accounts and rows as they are, and
\* a request is let through to save() only when the accounts read for it meet
\* every precondition.
C6_RejectionChangesNothing ==
    [][/\ (/\ response = NoResponse
           /\ response'.kind \in {"invalid", "crash"}
           /\ response'.endpoint = "transfer")
          => (accounts' = accounts /\ txs' = txs)
       /\ \A p \in Procs :
             (pc[p] = "src_read" /\ pc'[p] = "validated") => PreconditionsRead(p)']_vars

\* A transfer is refused while the source has spent part of its funds, and a
\* request exceeding what is left is refused for insufficient funds.
C6_Witness ==
    /\ response = Respond("transfer", "invalid", 400)
    /\ \E a \in Opened : accounts[a].balance < DemoAmount
    /\ \E req \in PairInputs :
          /\ req.user \in Registered
          /\ is_valid(Db, req).errors
                = {[field |-> "non_field_errors", message |-> "Insufficient funds."]}

\* C7: no two rows of the transactions table share a reference number.
C7_UniqueReferences ==
    \A i, j \in 1 .. Len(txs) :
        i # j => txs[i].reference_number # txs[j].reference_number

\* Two handlers hold the same generated reference, neither row inserted yet.
C7_Witness ==
    \E p, q \in Procs :
        /\ p # q
        /\ pc[p] \in {"debit_ref", "credit_ref"}
        /\ pc[q] \in {"debit_ref", "credit_ref"}
        /\ loc[p].reference = loc[q].reference

\* The rows written so far: the committed ones and those of open transactions.
WrittenRows ==
    Rows \cup UNION {{PendingRows(p)[i].row : i \in 1 .. Len(PendingRows(p))} : p \in Procs}

\* C8: every row written has a positive amount, and balance_after is
\* balance_before plus the amount for a CREDIT, minus the amount for a DEBIT.
C8_BalanceAfter ==
    \A r \in WrittenRows :
        /\ r.amount > 0
        /\ r.transaction_type = "CREDIT" => r.balance_after = r.balance_before + r.amount
        /\ r.transaction_type = "DEBIT" => r.balance_after = r.balance_before - r.amount

\* A transfer's DEBIT row and CREDIT row are committed next to a welcome row.
C8_Witness ==
    /\ \E r \in Rows : r.xfer > 0 /\ r.transaction_type = "DEBIT"
    /\ \E r \in Rows : r.xfer > 0 /\ r.transaction_type = "CREDIT"
    /\ \E r \in Rows : r.xfer = 0

\* C9: a request whose PIN is not the requester's is refused with the error
\* of the PIN (HTTP 400).
C9_WrongPinRefused ==
    \A req \in Requests :
        (req.user \in Registered /\ users[req.user].pin # req.pin)
        => /\ is_valid(Db, req).kind = "invalid"
           /\ \E e \in is_valid(Db, req).errors : e.field = "pin"

\* The first precondition a request violates in the order of the
\* specification: amount, same account, source, destination, PIN, funds.
FirstViolated(db, req) ==
    LET src == SourceLookup(db, req.from_account, req.user)
        dst == DestinationLookup(db, req.to_account)
    IN  IF req.amount <= 0 THEN "Transfer amount must be positive."
        ELSE IF req.from_account = req.to_account
        THEN "Cannot transfer to the same account."
        ELSE IF src = {} THEN "Source account not found or does not belong to you."
        ELSE IF \E a \in src : db.accounts[a].status # "ACTIVE"
        THEN "Source account is not active."
        ELSE IF dst = {} THEN "Destination account not found."
        ELSE IF \E a \in dst : db.accounts[a].status # "ACTIVE"
        THEN "Destination account is not active."
        ELSE IF db.users[req.user].pin # req.pin THEN "pin"
        ELSE IF \E a \in src : db.accounts[a].available_balance < req.amount
        THEN "Insufficient funds."
        ELSE "ok"

\* C10: the answer to a request is the error of the first precondition it
\* violates in the order amount, same account, source, destination, PIN,
\* funds, and only that error.
C10_FirstFailureWins ==
    \A req \in Requests :
        req.user \in Registered
        => LET first == FirstViolated(Db, req)
               answer == is_valid(Db, req)
           IN  IF first = "ok" THEN answer.kind = "valid"
               ELSE /\ answer.kind = "invalid"
                    /\ Cardinality(answer.errors) = 1
                    /\ \A e \in answer.errors :
                          IF first = "pin" THEN e.field = "pin" ELSE e.message = first

\* A handler has read account a in validate() and has not yet written a's
\* updated balance: the source until from_account.save(), the destination
\* until to_account.save().
ReadNotWritten(p, a) ==
    \/ pc[p] = "src_read" /\ a = loc[p].src
    \/ pc[p] = "validated" /\ a \in {loc[p].src, loc[p].dst}
    \/ pc[p] = "from_saved" /\ a = loc[p].dst

\* C11: no two transfers are at the same time between reading the balance of
\* one account and writing its updated balance.
C11_MutualExclusion ==
    \A p, q \in Procs, a \in AcctIds :
        p # q => ~(ReadNotWritten(p, a) /\ ReadNotWritten(q, a))

\* C12: two transfers never hold one account each while each waits for the
\* account the other holds.
C12_NoDeadlock ==
    \A p, q \in Procs :
        p # q => ~(/\ pc[p] = "from_saved"
                   /\ pc[q] = "from_saved"
                   /\ loc[p].dst \in LockedBy(q)
                   /\ loc[q].dst \in LockedBy(p))

\* The stored accounts of a transfer still meet the conditions it was
\* validated under.
StillValid(p) ==
    /\ accounts[loc[p].src].status = "ACTIVE"
    /\ accounts[loc[p].dst].status = "ACTIVE"
    /\ accounts[loc[p].src].available_balance >= loc[p].req.amount

\* C13: a transfer commits only when, as stored at that moment, both accounts
\* are ACTIVE and the source holds the amount; when that changed after the
\* validation the transfer aborts.
C13_RevalidatedUnderLock ==
    [][\A p \in Procs :
          (pc[p] = "credit_row" /\ pc'[p] = "committed") => StillValid(p)]_vars

\* The audit entry of the transfer handler p is working on.
TransferEntry(p) == AuditLog(loc[p].req.user, "TRANSFER", loc[p].xfer)

\* Handler p returns from the view after its COMMIT.
Returns(p) == pc[p] = "committed" /\ pc'[p] = "idle"

\* C14: a success response goes out only with the transfer's audit entry
\* appended, and a handler that has committed a transfer's pair does not
\* return without that entry being in the audit log.
C14_AuditedBeforeSuccess ==
    [][/\ (response' = Respond("transfer", "ok", 200) /\ response = NoResponse)
          => \E p \in Procs : Returns(p) /\ BagIn(TransferEntry(p), audit')
       /\ \A p \in Procs : Returns(p) => BagIn(TransferEntry(p), audit')]_vars

\* The responses that tell the caller the transfer was refused or failed.
TransferErrors ==
    {Respond("transfer", "invalid", 400), Respond("transfer", "failed", 400)}

\* C15: when the audit entry of a committed transfer cannot be appended, the
\* accounts and both rows stay as committed, and the response has a status
\* (500) that no refused or failed transfer is answered with.
C15_AuditFailureKeepsTransfer ==
    [][\A p \in Procs :
          (Returns(p) /\ ~BagIn(TransferEntry(p), audit'))
          => /\ accounts' = accounts
             /\ txs' = txs
             /\ Len(TransferRows(loc[p].xfer)) = 2
             /\ response'.endpoint = "transfer"
             /\ response'.status = 500
             /\ response'.status \notin {r.status : r \in TransferErrors}]_vars

\* A transfer's pair is committed, its audit entry is missing and the caller
\* has been answered with the status 500.
C15_Witness ==
    /\ response = Respond("transfer", "error", 500)
    /\ \E k \in Finished :
          /\ Len(TransferRows(k)) = 2
          /\ \A e \in BagToSet(audit) : e.xfer # k

\* C16: every step leaves each entry of the audit log in the log, as it is.
C16_AuditAppendOnly == [][audit \sqsubseteq audit']_vars

\* C17: a row of a transfer is written with status COMPLETED, and every step
\* leaves each committed row of a transfer in the table with all its fields.
C17_RowsImmutable ==
    [][/\ \A r \in WrittenRows : r.xfer > 0 => r.status = "COMPLETED"
       /\ \A r \in Rows : r.xfer > 0 => r \in Rows']_vars

\* C18: reference generation always ends: no handler is in the loop that
\* draws suffixes with every suffix of its timestamp taken, where each draw
\* is followed by another.
C18_ReferenceTerminates ==
    \A p \in Procs :
        ~(/\ pc[p] \in DOMAIN AfterDraw
          /\ \A d \in Suffixes :
                ReferenceExists(p, TxnReference(loc[p].reference[2], d)))

\* The accounts of the transfer that committed row r.
AccountsOf(r) == {x.account : x \in {y \in Rows : y.xfer = r.xfer}}

\* C19: a transfer about to insert a row is not made to fail by a transfer
\* on two other accounts: the reference it holds is not one that such a
\* transfer has committed in the meantime.
C19_DisjointTransfersIndependent ==
    \A p \in Procs, r \in Rows :
        (pc[p] \in {"debit_ref", "credit_ref"} /\ r.reference_number = loc[p].reference)
        => AccountsOf(r) \cap {loc[p].src, loc[p].dst} # {}

\* The account instances written by transfers that have not committed yet.
PendingAccounts ==
    UNION {{loc[p].writes[i].row : i \in {j \in 1 .. Len(loc[p].writes) :
                                             loc[p].writes[j].op = "account"}} :
           p \in Procs}

\* C20: every stored account, and every account instance a transfer has
\* written, has available_balance equal to balance.
C20_AvailableEqualsBalance ==
    /\ \A a \in Opened : accounts[a].available_balance = accounts[a].balance
    /\ \A row \in PendingAccounts : row.available_balance = row.balance

\* Two interleaved transfers have returned, one committed and one failed.
C20_Witness ==
    /\ overlapped
    /\ InFlight = {}
    /\ \E k \in Finished : Len(TransferRows(k)) = 2
    /\ \E k \in Finished : TransferRows(k) = <<>>
    /\ \E a \in Opened : accounts[a].balance # DemoAmount

\* C21: when a transfer debits its source, the stored source is ACTIVE and
\* belongs to the requester; when it credits its destination, the stored
\* destination is ACTIVE.
C21_DebitOnOwnedActive ==
    [][\A p \in Procs :
          /\ (pc[p] = "validated" /\ pc'[p] = "from_saved")
             => /\ accounts[loc[p].src].status = "ACTIVE"
                /\ accounts[loc[p].src].user = loc[p].req.user
          /\ (pc[p] = "from_saved" /\ pc'[p] = "to_saved")
             => accounts[loc[p].dst].status = "ACTIVE"]_vars

\* C22: no owner has two accounts with is_primary set.
C22_OnePrimaryPerOwner ==
    \A a, b \in Opened :
        (a # b /\ accounts[a].user = accounts[b].user)
        => ~(accounts[a].is_primary /\ accounts[b].is_primary)

\* An owner holds two accounts and a transfer has been committed.
C22_Witness ==
    /\ \E a, b \in Opened : a # b /\ accounts[a].user = accounts[b].user
    /\ \E r \in Rows : r.xfer > 0

\* The fields of an account a transfer has no business with.
Frame(row) ==
    [status |-> row.status, is_primary |-> row.is_primary, user |-> row.user,
     account_number |-> row.account_number]

\* C23: the COMMIT of a transfer leaves status, is_primary, owner and number
\* of its two accounts, and every other account, as they are stored; a status
\* set by the administrator since the validation is kept.
C23_TransferFrame ==
    [][\A p \in Procs :
          (pc[p] = "credit_row" /\ pc'[p] = "committed")
          => \A a \in Opened :
                IF a \in {loc[p].src, loc[p].dst}
                THEN Frame(accounts'[a]) = Frame(accounts[a])
                ELSE accounts'[a] = accounts[a]]_vars

\* The sum of the stored balances of the accounts in S.
RECURSIVE TotalBalance(_)
TotalBalance(S) ==
    IF S = {} THEN 0
    ELSE LET a == CHOOSE x \in S : TRUE
         IN  accounts[a].balance + TotalBalance(S \ {a})

\* C24: as long as the admin site has not been used, the stored balances add
\* up to the opening balances of the accounts opened so far.
C24_Conservation ==
    admin_ops = 0 => TotalBalance(Opened) = DemoAmount * Cardinality(Opened)

\* C25: no stored balance and no stored available_balance is negative.
C25_NonNegative ==
    \A a \in Opened : accounts[a].balance >= 0 /\ accounts[a].available_balance >= 0

\* Two interleaved transfers have both been committed.
C25_Witness ==
    /\ overlapped
    /\ InFlight = {}
    /\ \A k \in 1 .. 2 : Len(TransferRows(k)) = 2
    /\ \E a \in Opened : accounts[a].balance < DemoAmount

\* The rows written for account a by its registration.
WelcomeRows(a) == {i \in 1 .. Len(txs) : txs[i].account = a /\ txs[i].xfer = 0}

\* C26: every account stored with a balance that is not zero has exactly one
\* welcome row: a COMPLETED CREDIT of the opening balance, from 0.00 to
\* 50000.00.
C26_RegistrationAllOrNothing ==
    \A a \in Opened :
        accounts[a].balance # 0
        => /\ Cardinality(WelcomeRows(a)) = 1
           /\ \A i \in WelcomeRows(a) :
                 txs[i] = WelcomeTransaction(a, accounts[a].account_number)

\* The rows of account a, in the order they were committed.
RowsOf(a) == SelectSeq(txs, LAMBDA r : r.account = a)

\* C27: as long as the admin site has not been used, the rows of every
\* account form a chain in commit order: the first row starts from the
\* balance the account had before it (0.00 for the welcome row, the opening
\* balance otherwise), each later row starts from the previous row's
\* balance_after, and the last row ends at the stored balance.
C27_SnapshotChain ==
    \A a \in Opened :
        LET rows == RowsOf(a)
        IN  (admin_ops = 0 /\ Len(rows) > 0)
            => /\ rows[1].balance_before = (IF rows[1].xfer = 0 THEN 0 ELSE DemoAmount)
               /\ \A i \in 2 .. Len(rows) :
                     rows[i].balance_before = rows[i - 1].balance_after
               /\ rows[Len(rows)].balance_after = accounts[a].balance

====
